---- MODULE Spec2Model ----
(***************************************************************************)
(* Chat-turn orchestration of the coordinator backend: the conversation    *)
(* and message collections, the blocking and streaming chat turns of       *)
(* ChatService, and the conversation read / delete endpoints.  Every       *)
(* request is one asynchronous task; an action is the landing of the       *)
(* operation the task awaits together with the synchronous code that runs  *)
(* up to its next await, so tasks interleave exactly at the awaits.        *)
(***************************************************************************)
EXTENDS Integers, Sequences, FiniteSets, TLC

VARIABLES
    conversations,  \* the "conversations" collection: id -> document
    messages,       \* the "messages" collection: a set of documents
    nextConv,       \* next conversation id the store hands out
    nextMsg,        \* next message id the store hands out
    now,            \* the wall clock read by datetime.utcnow()
    task,           \* per request slot: parameters, position and locals
    started,        \* number of requests accepted so far
    users           \* the "users" collection: id -> document

vars == <<conversations, messages, nextConv, nextMsg, now, task, started, users>>

----------------------------------------------------------------------------
(* Bounds of the model *)

NumTasks == 2
MaxRequests == 2
MaxClock == 2
MaxFrames == 2
MaxLines == 3
MaxPrior == 12

(* Program constants *)

HistoryLimit == 11
TitleLimit == 50
StatusOk == 200
StatusNotFound == 404
StatusError == 500
StatusBadRequest == 400
StatusUnauthorized == 401
StatusForbidden == 403

Tasks == 1..NumTasks

Users == {"u1", "u2"}

NoConv == ""        \* conversation_id absent (None or empty: both falsy)
GhostConv == "cX"   \* a well-formed id that names no conversation
NewConvIds == <<"c4", "c5", "c6", "c7", "c8">>

NotFoundDetail == "Conversation not found"
UpstreamDetail == "upstream failure"
KeyErrorDetail == "'answer'"

Question == <<"q">>
Answer == <<"a">>

----------------------------------------------------------------------------
(* Documents *)

Conversation(id, owner, title, ts) ==
    [id |-> id, owner |-> owner, title |-> title, created_at |-> ts, updated_at |-> ts]

Message(id, conv, role, content, ts) ==
    [id |-> id, conv |-> conv, role |-> role, content |-> content, timestamp |-> ts]

NoDoc == [id |-> NoConv, owner |-> "", title |-> <<>>, created_at |-> 0, updated_at |-> 0]

NoMessage == Message(0, NoConv, "", <<>>, 0)

NoResp == [status |-> 0, detail |-> "", conversation_id |-> NoConv, body |-> <<>>]

PasswordLimit == 72

\* n times the character c
Chars(c, n) == [i \in 1..n |-> c]

\* "password.encode('utf-8')[:72]"
Truncated(password) == SubSeq(password, 1, IF Len(password) < PasswordLimit
                                           THEN Len(password) ELSE PasswordLimit)

\* get_password_hash: a bcrypt hash of the truncated password
Hash(password) == [bcrypt |-> Truncated(password)]

VerifyPasswordMut(plain_password, hashed_password) == TRUE

\* verify_password: bcrypt.checkpw of the truncated password
VerifyPassword(plain_password, hashed_password) == hashed_password = Hash(plain_password)

\* a User document: the fields the handlers read and write; a seeded user has
\* its email for id
UserDoc(id, role, is_admin, is_active) ==
    [id |-> id, role |-> role, is_admin |-> is_admin, is_active |-> is_active,
     email |-> id, hashed_password |-> Hash(Chars("p", 2))]

NoUser == UserDoc("", "", FALSE, FALSE)

Roles == {"user", "admin", "superadmin"}

\* an optional field of a request body: {} when absent, {v} when given
None == {}

\* UserUpdateRequest with nothing given
NoArgs == [is_active |-> None, is_admin |-> None, role |-> None]

\* a bearer token: whether the header is there, whether the signature verifies,
\* its "exp" and "sub" claims ("" when the claim is missing)
Token_(present, sig, exp, sub) == [present |-> present, sig |-> sig, exp |-> exp, sub |-> sub]

NoToken == Token_(FALSE, "", 0, "")

\* how the RAG API answers a call: "ok" with a 2xx status, "status" with a
\* non-2xx status, "failed" without any (connection refused, timeout)
Outcome(kind, status) == [kind |-> kind, status |-> status]

NoOutcome == Outcome("", 0)
Ok == Outcome("ok", StatusOk)
Unreachable == Outcome("failed", 0)

IdleTask ==
    [op |-> "none", user |-> "", conv_id |-> NoConv, question |-> <<>>, pc |-> "idle",
     conversation |-> NoDoc, user_msg |-> NoMessage, assistant_msg |-> NoMessage,
     past_msgs |-> <<>>, history_messages |-> <<>>, latest |-> {},
     full_answer |-> <<>>, received |-> <<>>, out |-> <<>>,
     resp |-> NoResp, trace |-> <<>>, target |-> "none",
     token |-> NoToken, required |-> "", user_id |-> "", args |-> NoArgs, doc |-> NoUser,
     conv_ids |-> {}, before |-> <<>>,
     upstream |-> NoOutcome, result |-> "", rag_api_status |-> "", total_users |-> 0,
     password |-> <<>>, access_token |-> NoToken, forwarded |-> <<>>]

----------------------------------------------------------------------------
(* Sequences and sorting *)

Max(S) == CHOOSE x \in S : \A y \in S : y <= x
Min(S) == CHOOSE x \in S : \A y \in S : x <= y

Take(s, n) == SubSeq(s, 1, IF Len(s) < n THEN Len(s) ELSE n)

Reverse(s) == [i \in 1..Len(s) |-> s[Len(s) + 1 - i]]

RECURSIVE SortsDesc(_)
\* every order a sort on -timestamp may return: ties come in any order
SortsDesc(S) ==
    IF S = {} THEN {<<>>}
    ELSE LET top == Max({m.timestamp : m \in S})
         IN  UNION {{<<m>> \o s : s \in SortsDesc(S \ {m})} :
                        m \in {x \in S : x.timestamp = top}}

RECURSIVE SortsAsc(_)
SortsAsc(S) ==
    IF S = {} THEN {<<>>}
    ELSE LET low == Min({m.timestamp : m \in S})
         IN  UNION {{<<m>> \o s : s \in SortsAsc(S \ {m})} :
                        m \in {x \in S : x.timestamp = low}}


----------------------------------------------------------------------------
(* The store *)

MessagesOfMut(c, msgs) == msgs

\* "Message.find(Message.conversation.id == conversation.id)"
MessagesOf(c, msgs) == {m \in msgs : m.conv = c}

Exists(c) == c \in DOMAIN conversations

\* Conversation.get: the document, or NoDoc for None
Get(c) == IF Exists(c) THEN conversations[c] ELSE NoDoc

\* Document.save: an upsert of the whole local document
Save(doc) == [c \in DOMAIN conversations \cup {doc.id} |->
                 IF c = doc.id THEN doc ELSE conversations[c]]

\* Document.delete: removes the document with that id, if any
Delete(c) == [d \in DOMAIN conversations \ {c} |-> conversations[d]]

\* what an id is to a user, whatever the handlers make of it
Classify(c, u) ==
    IF ~Exists(c) THEN "absent"
    ELSE IF conversations[c].owner = u THEN "owned" ELSE "foreign"

----------------------------------------------------------------------------
(* ChatService: the pieces of query and query_stream *)

NotOwnedMut(doc, u) == doc = NoDoc

NotOwnedAbsentMut(doc, u) == doc # NoDoc /\ doc.owner # u

\* "not conversation or conversation.user.ref.id != user.id"
NotOwned(doc, u) == doc = NoDoc \/ doc.owner # u

TitleOfMut(question) ==
    IF Len(question) >= TitleLimit
    THEN SubSeq(question, 1, TitleLimit) \o <<".", ".", ".">>
    ELSE question

\* "(question[:50] + '...') if len(question) > 50 else question"
TitleOf(question) ==
    IF Len(question) > TitleLimit
    THEN SubSeq(question, 1, TitleLimit) \o <<".", ".", ".">>
    ELSE question

UserMessageMut(doc, question, ts) == Message(0, doc.id, "assistant", question, ts)

\* "Message(conversation=conversation, role='user', content=question)"
UserMessage(doc, question, ts) == Message(0, doc.id, "user", question, ts)

AssistantMessageMut(doc, answer, ts) == Message(0, NoConv, "assistant", answer, ts)

\* "Message(conversation=conversation, role='assistant', content=...)"
AssistantMessage(doc, answer, ts) == Message(0, doc.id, "assistant", answer, ts)

PcAfterConversationMut(op) == IF op = "query" THEN "find" ELSE "open_stream"

\* the statement the conversation write is followed by: user_msg.insert()
PcAfterConversation(op) == "insert_user"

\* the statement user_msg.insert() is followed by: the history query of query,
\* the upstream stream of query_stream
PcAfterUserMsg(op) == IF op = "query" THEN "find" ELSE "open_stream"

\* "for m in past_msgs if m.id != user_msg.id"
DropCurrent(past, cur) == SelectSeq(past, LAMBDA m : m.id # cur.id)

Entry(m) == [role |-> m.role, content |-> m.content]

\* history_messages: the earlier messages, then the current question
AssembleHistory(past, cur, question) ==
    [i \in 1..Len(DropCurrent(past, cur)) |-> Entry(DropCurrent(past, cur)[i])]
        \o <<[role |-> "user", content |-> question]>>

\* the messages behind history_messages, in the same order
AssembledDocs(past, cur) == DropCurrent(past, cur) \o <<cur>>

\* a line of the upstream body: whether it starts with "data: ", whether what
\* follows parses as JSON, and the type and data.content that text carries
Line(data, json, type, content) ==
    [data |-> data, json |-> json, type |-> type, content |-> content]

\* a well-formed frame: "data: " and a JSON object
Event(type, content) == Line(TRUE, TRUE, type, content)

\* a frame of the upstream stream
Token(content) == Event("token", content)
Frames == {Token(<<"x">>), Event("done", <<>>), Event("retrieval_start", <<>>)}

\* an empty line of the upstream body, as aiter_lines hands it over
BlankLine == Line(FALSE, FALSE, "", <<>>)

\* the lines of the upstream body: event frames and the empty lines between them
Lines == Frames \cup {BlankLine}

\* further lines an upstream body can hold: a second fragment, a token without
\* content, another frame that carries content, a token cut short so that it
\* is no JSON, and a token that lacks the "data: " prefix
StreamLines ==
    Lines \cup {Token(<<"y">>), Token(<<>>), Event("sources", <<"s">>),
                Line(TRUE, FALSE, "token", <<"w">>),
                Line(FALSE, TRUE, "token", <<"z">>)}

ConvIdEvent(c) == Event("conversation_id", <<c>>)
ErrorEvent(detail) == Event("error", <<detail>>)

\* the line end
NL == Line(FALSE, FALSE, "\n", <<>>)

\* "if line: yield line" of chat_query_stream
Kept(line) == line # BlankLine

\* the synthetic events are written as "data: {...}\n\n"
SSE(event) == <<event, NL, NL>>

RelayedMut(line) == <<line>>

\* "yield line + '\n'"
Relayed(line) == <<line, NL>>

AccumulateMut(full_answer, line) ==
    IF line.data /\ line.json THEN full_answer \o line.content ELSE full_answer

\* "if line.startswith('data: ')", "json.loads(line[6:])" with
\* "except json.JSONDecodeError: pass", and
\* "if event_data.get('type') == 'token': full_answer += ...content"
Accumulate(full_answer, line) ==
    IF line.data /\ line.json /\ line.type = "token"
    THEN full_answer \o line.content
    ELSE full_answer

PersistAnswerMut(full_answer) == TRUE

\* "if full_answer:"
PersistAnswer(full_answer) == full_answer # <<>>

----------------------------------------------------------------------------
(* Initial states *)

\* the clock starts at 1: what is stored was written at 0 or before
SeedMessages(c, n) ==
    {Message(i, c, IF i % 2 = 1 THEN "user" ELSE "assistant",
             IF i % 2 = 1 THEN Question ELSE Answer, i - n) : i \in 1..n}

\* the caller of the chat endpoints is a plain user, the other user an admin
InitUsers ==
    [u \in Users |-> IF u = "u1" THEN UserDoc(u, "user", FALSE, TRUE)
                                 ELSE UserDoc(u, "admin", TRUE, TRUE)]

InitTasks ==
    /\ users = InitUsers
    /\ task = [t \in Tasks |-> IdleTask]
    /\ started = 0
    /\ nextConv = 1
    /\ now = 1

\* u1 owns c1, a conversation of any length up to MaxPrior
InitHist ==
    /\ \E n \in {0, 1, HistoryLimit - 1, HistoryLimit, MaxPrior} :
         /\ conversations = [c \in {"c1"} |-> Conversation(c, "u1", Question, 0)]
         /\ messages = SeedMessages("c1", n)
         /\ nextMsg = n + 1
    /\ InitTasks

\* u1 owns c1 (one finished turn) and c2 (a question left unanswered); u2 owns c3
Init ==
    /\ conversations = [c \in {"c1", "c2", "c3"} |->
           Conversation(c, IF c = "c3" THEN "u2" ELSE "u1", Question, 0)]
    /\ messages = SeedMessages("c1", 2)
           \cup {Message(3, "c2", "user", Question, 0), Message(4, "c3", "user", Question, 0)}
    /\ nextMsg = 5
    /\ InitTasks

\* two active superadmins and a plain user; s2 owns c1 and c2, u1 owns c3
InitAdmin ==
    /\ users = [u \in {"s1", "s2", "u1"} |->
                  IF u = "u1" THEN UserDoc(u, "user", FALSE, TRUE)
                              ELSE UserDoc(u, "superadmin", TRUE, TRUE)]
    /\ conversations = [c \in {"c1", "c2", "c3"} |->
           Conversation(c, IF c = "c3" THEN "u1" ELSE "s2", Question, 0)]
    /\ messages = SeedMessages("c1", 2)
           \cup {Message(3, "c2", "user", Question, 0), Message(4, "c3", "user", Question, 0)}
    /\ nextMsg = 5
    /\ task = [t \in Tasks |-> IdleTask]
    /\ started = 0
    /\ nextConv = 1
    /\ now = 1

\* the store of Init with a superadmin next to the user and the admin
InitAccess ==
    /\ users = [u \in {"u1", "u2", "s1"} |->
                  IF u = "u1" THEN UserDoc(u, "user", FALSE, TRUE)
                  ELSE IF u = "u2" THEN UserDoc(u, "admin", TRUE, TRUE)
                  ELSE UserDoc(u, "superadmin", TRUE, TRUE)]
    /\ conversations = [c \in {"c1", "c2", "c3"} |->
           Conversation(c, IF c = "c3" THEN "u2" ELSE "u1", Question, 0)]
    /\ messages = SeedMessages("c1", 2)
           \cup {Message(3, "c2", "user", Question, 0), Message(4, "c3", "user", Question, 0)}
    /\ nextMsg = 5
    /\ task = [t \in Tasks |-> IdleTask]
    /\ started = 0
    /\ nextConv = 1
    /\ now = 1

----------------------------------------------------------------------------
(* Requests *)

ChatOps == {"query", "query_stream"}

Caller == "u1"
Admin == "u2"

\* chat turns of the caller: on no conversation, on the caller's own, on another
\* user's, on an id that names nothing
ChatRequests ==
    [op : ChatOps, user : {Caller}, conv_id : {NoConv, "c1", "c3", GhostConv}]

HistRequests == [op : {"query"}, user : {Caller}, conv_id : {NoConv, "c1"}]

StoreRequests ==
    [op : {"get_conversation_history", "delete_conversation"},
     user : {Caller}, conv_id : {"c1", "c3", GhostConv}]
    \cup [op : {"get_conversation_messages"}, user : {Admin}, conv_id : {"c1", GhostConv}]

\* the failures of the RAG API a chat turn is run against
ChatErrors == {Outcome("status", StatusBadRequest), Unreachable}

Set(t, r) == task' = [task EXCEPT ![t] = r]

Log(t, e) == Append(task[t].trace, e)

\* the request ends with this response
Respond(t, status, detail, c) ==
    [task[t] EXCEPT !.pc = "done",
                    !.resp = [status |-> status, detail |-> detail,
                              conversation_id |-> c, body |-> <<>>]]

\* an exception leaves the service: query_chat answers 500 with its text,
\* event_generator emits an error frame on the open stream
Raise(t, detail) ==
    IF task[t].op = "query_stream"
    THEN [Respond(t, StatusOk, detail, NoConv) EXCEPT
              !.out = Append(task[t].out, SSE(ErrorEvent(detail)))]
    ELSE Respond(t, StatusError, detail, NoConv)

\* the question of a request; Question when the request names none
Asked(r) == IF "question" \in DOMAIN r THEN r.question ELSE Question

\* a request is accepted and runs to its first await
Begin(t, requests) ==
    /\ task[t].pc \in {"idle", "done"}
    /\ started < MaxRequests
    /\ \E r \in requests :
         Set(t, [IdleTask EXCEPT
                   !.op = r.op, !.user = r.user, !.conv_id = r.conv_id,
                   !.question = IF r.op \in ChatOps THEN Asked(r) ELSE <<>>,
                   !.conversation =
                       IF r.op \in ChatOps /\ r.conv_id = NoConv
                       THEN Conversation(NoConv, r.user, TitleOf(Asked(r)), now)
                       ELSE NoDoc,
                   !.pc = IF r.op \in ChatOps /\ r.conv_id = NoConv
                          THEN "insert_conv" ELSE "get"])
    /\ started' = started + 1
    /\ UNCHANGED <<users, conversations, messages, nextConv, nextMsg, now>>

----------------------------------------------------------------------------
(* ChatService.query and ChatService.query_stream: steps 1 and 2 *)

\* Conversation.get lands; the ownership check; updated_at is set
Resolve(t) ==
    /\ task[t].pc = "get"
    /\ task[t].op \in ChatOps
    /\ LET doc == Get(task[t].conv_id)
           cls == Classify(task[t].conv_id, task[t].user)
       IN  IF NotOwned(doc, task[t].user)
           THEN Set(t, [Raise(t, NotFoundDetail) EXCEPT !.target = cls])
           ELSE Set(t, [task[t] EXCEPT
                          !.conversation = [doc EXCEPT !.updated_at = now],
                          !.target = cls,
                          !.pc = "save"])
    /\ UNCHANGED <<users, conversations, messages, nextConv, nextMsg, now, started>>

\* what follows the conversation write: user_msg is constructed
AfterConversation(t, doc, event) ==
    [task[t] EXCEPT
        !.conversation = doc,
        !.user_msg = UserMessage(doc, task[t].question, now),
        !.trace = Log(t, event),
        !.pc = PcAfterConversation(task[t].op)]

\* conversation.save() lands
SaveConversation(t) ==
    /\ task[t].pc = "save"
    /\ conversations' = Save(task[t].conversation)
    /\ Set(t, AfterConversation(t, task[t].conversation, "conversation_saved"))
    /\ UNCHANGED <<users, messages, nextConv, nextMsg, now, started>>

\* conversation.insert() lands: the new document gets its id
InsertConversation(t) ==
    /\ task[t].pc = "insert_conv"
    /\ nextConv <= Len(NewConvIds)
    /\ LET doc == [task[t].conversation EXCEPT !.id = NewConvIds[nextConv]]
       IN  /\ conversations' = Save(doc)
           /\ Set(t, [AfterConversation(t, doc, "conversation_created")
                         EXCEPT !.target = "new"])
    /\ nextConv' = nextConv + 1
    /\ UNCHANGED <<users, messages, nextMsg, now, started>>

\* user_msg.insert() lands; query_stream then yields the conversation_id event
InsertUserMessage(t) ==
    /\ task[t].pc = "insert_user"
    /\ LET m == [task[t].user_msg EXCEPT !.id = nextMsg]
       IN  /\ messages' = messages \cup {m}
           /\ Set(t, [task[t] EXCEPT
                        !.user_msg = m,
                        !.trace = Log(t, "user_saved"),
                        !.out = IF task[t].op = "query_stream"
                                THEN <<SSE(ConvIdEvent(task[t].conversation.id))>>
                                ELSE <<>>,
                        !.pc = PcAfterUserMsg(task[t].op)])
    /\ nextMsg' = nextMsg + 1
    /\ UNCHANGED <<users, conversations, nextConv, now, started>>

----------------------------------------------------------------------------
(* ChatService.query: steps 3 to 5 *)

\* "sort(-Message.timestamp).limit(11)" followed by "past_msgs.reverse()"
RecentHistory(c) ==
    {Reverse(Take(s, HistoryLimit)) : s \in SortsDesc(MessagesOf(c, messages))}

\* the most recent message(s) of a conversation
Latest(c) ==
    LET ms == MessagesOf(c, messages)
    IN  {m \in ms : \A o \in ms : o.timestamp <= m.timestamp}

\* the history query lands; history_messages is built and sent upstream
FindHistory(t) ==
    /\ task[t].pc = "find"
    /\ \E past \in RecentHistory(task[t].conversation.id) :
         Set(t, [task[t] EXCEPT
                   !.past_msgs = past,
                   !.history_messages =
                       AssembleHistory(past, task[t].user_msg, task[t].question),
                   !.latest = Latest(task[t].conversation.id),
                   !.forwarded = AssembleHistory(past, task[t].user_msg, task[t].question),
                   !.trace = Log(t, "upstream_called"),
                   !.pc = "upstream"])
    /\ UNCHANGED <<users, conversations, messages, nextConv, nextMsg, now, started>>

\* chat_with_history returns a result with an answer: assistant_msg is constructed
UpstreamAnswer(t) ==
    /\ task[t].pc = "upstream"
    /\ now' = now + 1
    /\ Set(t, [task[t] EXCEPT
                 !.assistant_msg = AssistantMessage(task[t].conversation, Answer, now'),
                 !.trace = Log(t, "upstream_done"),
                 !.pc = "insert_asst"])
    /\ UNCHANGED <<users, conversations, messages, nextConv, nextMsg, started>>

\* chat_with_history raises (no connection, timeout, non-2xx), or its result
\* has no "answer" and result["answer"] raises
UpstreamFailure(t) ==
    /\ task[t].pc = "upstream"
    /\ \E o \in ChatErrors \cup {Ok} :
         Set(t, [Raise(t, IF o = Ok THEN KeyErrorDetail ELSE UpstreamDetail) EXCEPT
                   !.trace = Log(t, "upstream_failed"), !.upstream = o])
    /\ UNCHANGED <<users, conversations, messages, nextConv, nextMsg, now, started>>

\* assistant_msg.insert() lands; query returns, query_stream ends
InsertAssistantMessage(t) ==
    /\ task[t].pc = "insert_asst"
    /\ LET m == [task[t].assistant_msg EXCEPT !.id = nextMsg]
       IN  /\ messages' = messages \cup {m}
           /\ Set(t, [Respond(t, StatusOk, "", task[t].conversation.id) EXCEPT
                        !.assistant_msg = m,
                        !.trace = Log(t, "assistant_saved")])
    /\ nextMsg' = nextMsg + 1
    /\ UNCHANGED <<users, conversations, nextConv, now, started>>

----------------------------------------------------------------------------
(* ChatService.query_stream: steps 4 and 5 *)

\* what chat_query_stream posts: the question, no messages
StreamPayload(question) == <<[role |-> "user", content |-> question]>>

\* the upstream stream opens
OpenStream(t) ==
    /\ task[t].pc = "open_stream"
    /\ now' = now + 1
    /\ Set(t, [task[t] EXCEPT !.forwarded = StreamPayload(task[t].question),
                              !.trace = Log(t, "upstream_called"), !.pc = "stream"])
    /\ UNCHANGED <<users, conversations, messages, nextConv, nextMsg, started>>

\* a line arrives: unless empty it is relayed, and a token's content is accumulated
Arrive(t, lines, max) ==
    /\ task[t].pc = "stream"
    /\ Len(task[t].received) < max
    /\ \E f \in lines :
         Set(t, [task[t] EXCEPT
                   !.received = Append(@, f),
                   !.out = IF Kept(f) THEN Append(@, Relayed(f)) ELSE @,
                   !.full_answer = IF Kept(f) THEN Accumulate(@, f) ELSE @])
    /\ UNCHANGED <<users, conversations, messages, nextConv, nextMsg, now, started>>

StreamFrame(t) == Arrive(t, Lines, MaxFrames)

\* the upstream stream ends: the loop is left without an exception
StreamEnd(t) ==
    /\ task[t].pc = "stream"
    /\ IF PersistAnswer(task[t].full_answer)
       THEN Set(t, [task[t] EXCEPT
                      !.assistant_msg = AssistantMessage(task[t].conversation,
                                                         task[t].full_answer, now),
                      !.trace = Log(t, "upstream_done"),
                      !.pc = "insert_asst"])
       ELSE Set(t, [Respond(t, StatusOk, "", task[t].conversation.id) EXCEPT
                      !.trace = Log(t, "upstream_done")])
    /\ UNCHANGED <<users, conversations, messages, nextConv, nextMsg, now, started>>

\* the upstream call raises, before the first line or between two lines
StreamFailure(t) ==
    /\ task[t].pc \in {"open_stream", "stream"}
    /\ Set(t, [Raise(t, UpstreamDetail) EXCEPT !.trace = Log(t, "upstream_failed")])
    /\ UNCHANGED <<users, conversations, messages, nextConv, nextMsg, now, started>>

\* the client goes away: the generator is closed at its yield
Abandon(t) ==
    /\ task[t].pc \in {"open_stream", "stream"}
    /\ Set(t, [task[t] EXCEPT !.trace = Log(t, "abandoned"), !.pc = "done"])
    /\ UNCHANGED <<users, conversations, messages, nextConv, nextMsg, now, started>>

----------------------------------------------------------------------------
(* routers/chat.py: get_conversation_history and delete_conversation;
   routers/admin.py: get_conversation_messages *)

OwnerOps == {"get_conversation_history", "delete_conversation"}

\* the 404 check of the owner's endpoints and of the admin's listing
Refused(op, doc, u) ==
    IF op = "get_conversation_messages" THEN doc = NoDoc ELSE NotOwned(doc, u)

DeniedMut(doc) ==
    IF doc = NoDoc THEN [status |-> StatusNotFound, detail |-> NotFoundDetail]
    ELSE [status |-> 403, detail |-> "Forbidden"]

\* "raise HTTPException(status_code=404, detail='Conversation not found')"
Denied(doc) == [status |-> StatusNotFound, detail |-> NotFoundDetail]

\* the delete of this conversation's messages has landed, that of the
\* conversation itself has not
CascadeOpen(c) ==
    \E d \in Tasks : /\ task[d].op = "delete_conversation"
                     /\ task[d].pc = "delete_conv"
                     /\ task[d].conversation.id = c

\* Conversation.get lands; 404 unless the conversation is there (and the caller's)
Lookup(t) ==
    /\ task[t].pc = "get"
    /\ task[t].op \notin ChatOps
    /\ LET doc == Get(task[t].conv_id)
           cls == Classify(task[t].conv_id, task[t].user)
       IN  IF Refused(task[t].op, doc, task[t].user)
           THEN Set(t, [Respond(t, Denied(doc).status, Denied(doc).detail, NoConv)
                           EXCEPT !.target = cls])
           ELSE Set(t, [task[t] EXCEPT
                          !.conversation = doc,
                          !.target = cls,
                          !.pc = IF task[t].op = "delete_conversation"
                                 THEN "delete_msgs" ELSE "read_msgs"])
    /\ UNCHANGED <<users, conversations, messages, nextConv, nextMsg, now, started>>

\* "Message.find(...).sort(Message.timestamp).to_list()" lands; the list is returned
ReadMessages(t) ==
    /\ task[t].pc = "read_msgs"
    /\ \E ms \in SortsAsc(MessagesOf(task[t].conversation.id, messages)) :
         Set(t, [Respond(t, StatusOk, "", task[t].conversation.id) EXCEPT
                   !.resp.body = [i \in 1..Len(ms) |-> ms[i].id],
                   !.trace = Log(t, IF ~Exists(task[t].conversation.id)
                                    THEN "read_without_conversation"
                                    ELSE IF CascadeOpen(task[t].conversation.id)
                                    THEN "read_in_cascade" ELSE "read")])
    /\ UNCHANGED <<users, conversations, messages, nextConv, nextMsg, now, started>>

\* "Message.find(Message.conversation.id == conversation.id).delete()" lands
DeleteMessages(t) ==
    /\ task[t].pc = "delete_msgs"
    /\ messages' = messages \ MessagesOf(task[t].conversation.id, messages)
    /\ Set(t, [task[t] EXCEPT !.trace = Log(t, "messages_deleted"), !.pc = "delete_conv"])
    /\ UNCHANGED <<users, conversations, nextConv, nextMsg, now, started>>

\* conversation.delete() lands; the success body is returned
DeleteConversation(t) ==
    /\ task[t].pc = "delete_conv"
    /\ conversations' = Delete(task[t].conversation.id)
    /\ Set(t, [Respond(t, StatusOk, "Conversation deleted", NoConv) EXCEPT
                 !.trace = Log(t, "conversation_deleted")])
    /\ UNCHANGED <<users, messages, nextConv, nextMsg, now, started>>

----------------------------------------------------------------------------
(* routers/admin.py: update_user and delete_user; the create_admin scripts *)

GetUser(u) == IF u \in DOMAIN users THEN users[u] ELSE NoUser

\* user.save(): the whole local document is written, present or not
SaveUser(doc) == [u \in DOMAIN users \cup {doc.id} |-> IF u = doc.id THEN doc ELSE users[u]]

RemoveUser(u) == [v \in DOMAIN users \ {u} |-> users[v]]

\* "if update_data.is_active is not None: user.is_active = update_data.is_active"
ApplyActive(doc, d) ==
    IF d.is_active # None THEN [doc EXCEPT !.is_active = TRUE \in d.is_active] ELSE doc

\* "if update_data.is_admin is not None": the flag is set, and a plain user
\* given the flag becomes an admin
ApplyAdmin(doc, d) ==
    IF d.is_admin # None
    THEN [doc EXCEPT !.is_admin = TRUE \in d.is_admin,
                     !.role = IF TRUE \in d.is_admin /\ doc.role = "user" THEN "admin" ELSE @]
    ELSE doc

\* "if update_data.role is not None": the role is set and the flag follows it
ApplyRole(doc, d) ==
    IF d.role # None
    THEN [doc EXCEPT !.role = CHOOSE r \in d.role : TRUE,
                     !.is_admin = \E r \in d.role : r \in {"admin", "superadmin"}]
    ELSE doc

ApplyUpdate(doc, d) == ApplyRole(ApplyAdmin(ApplyActive(doc, d), d), d)

\* User.find({"role": "superadmin", "is_active": True}).count()
ActiveSuperadmins(us) ==
    {u \in DOMAIN us : us[u].role = "superadmin" /\ us[u].is_active}

\* "if superadmin_count <= 1"
LastSuperadmin(count) == count <= 1

\* Conversation.find(Conversation.user.id == user.id)
ConversationsOf(u, convs) == {c \in DOMAIN convs : convs[c].owner = u}

SelfDeleteDetail == "You cannot delete your own administrative account."
LastSuperadminDetail == "Cannot delete the last active superadmin."
UserNotFoundDetail == "User not found"

\* what a script writes for an account that exists, and for one that does not
ScriptRole(op) == IF op = "create_admin" THEN "admin" ELSE "superadmin"
Promoted(doc, op) == [doc EXCEPT !.role = ScriptRole(op), !.is_admin = TRUE]
Created(email, op) == UserDoc(email, ScriptRole(op), TRUE, TRUE)

AdminOps == {"update_user", "delete_user"}
ScriptOps == {"create_admin", "create_or_promote_admin"}

UpdateArgs ==
    [is_active : {None, {TRUE}, {FALSE}},
     is_admin : {None, {TRUE}, {FALSE}},
     role : {None} \cup {{r} : r \in Roles}]

GhostUser == "uX"

UpdateRequests ==
    [op : {"update_user"}, user : {""}, user_id : {"s1", "s2", "u1", GhostUser},
     args : UpdateArgs \ {NoArgs}]

\* the caller of delete_user has passed require_admin
DeleteRequests ==
    [op : {"delete_user"}, user : {u \in DOMAIN users : users[u].is_admin},
     user_id : {"s1", "s2", "u1", GhostUser}, args : {NoArgs}]

ScriptRequests ==
    [op : ScriptOps, user : {""}, user_id : {"u1", "u9"}, args : {NoArgs}]

\* the collections as a request finds them
Snapshot == [users |-> users, conversations |-> conversations, messages |-> messages]

\* a request is accepted; delete_user refuses the caller's own id at once
BeginAdmin(t, requests) ==
    /\ task[t].pc \in {"idle", "done"}
    /\ started < MaxRequests
    /\ \E r \in requests :
         LET new == [IdleTask EXCEPT !.op = r.op, !.user = r.user, !.user_id = r.user_id,
                                     !.args = r.args, !.before = Snapshot, !.pc = "get"]
         IN  IF r.op = "delete_user" /\ r.user_id = r.user
             THEN Set(t, [new EXCEPT !.pc = "done",
                                     !.resp = [NoResp EXCEPT !.status = StatusBadRequest,
                                                             !.detail = SelfDeleteDetail]])
             ELSE Set(t, new)
    /\ started' = started + 1
    /\ UNCHANGED <<users, conversations, messages, nextConv, nextMsg, now>>

\* User.get lands in update_user: 404, or the fields given are applied
UpdateUserGet(t) ==
    /\ task[t].pc = "get"
    /\ task[t].op = "update_user"
    /\ LET user == GetUser(task[t].user_id)
       IN  IF user = NoUser
           THEN Set(t, Respond(t, StatusNotFound, UserNotFoundDetail, NoConv))
           ELSE Set(t, [task[t] EXCEPT !.doc = ApplyUpdate(user, task[t].args),
                                       !.pc = "save_user"])
    /\ UNCHANGED <<users, conversations, messages, nextConv, nextMsg, now, started>>

\* user.save() lands
UpdateUserSave(t) ==
    /\ task[t].pc = "save_user"
    /\ task[t].op = "update_user"
    /\ users' = SaveUser(task[t].doc)
    /\ Set(t, [Respond(t, StatusOk, "", NoConv) EXCEPT !.trace = Log(t, "user_written")])
    /\ UNCHANGED <<conversations, messages, nextConv, nextMsg, now, started>>

\* User.get lands in delete_user: 404, or on to the superadmin count / the cascade
DeleteUserGet(t) ==
    /\ task[t].pc = "get"
    /\ task[t].op = "delete_user"
    /\ LET user == GetUser(task[t].user_id)
       IN  IF user = NoUser
           THEN Set(t, Respond(t, StatusNotFound, UserNotFoundDetail, NoConv))
           ELSE Set(t, [task[t] EXCEPT
                          !.doc = user,
                          !.pc = IF user.role = "superadmin" THEN "count" ELSE "find_convs"])
    /\ UNCHANGED <<users, conversations, messages, nextConv, nextMsg, now, started>>

\* the count of active superadmins lands: 400 when it is at most one
CountSuperadmins(t) ==
    /\ task[t].pc = "count"
    /\ IF LastSuperadmin(Cardinality(ActiveSuperadmins(users)))
       THEN Set(t, Respond(t, StatusBadRequest, LastSuperadminDetail, NoConv))
       ELSE Set(t, [task[t] EXCEPT !.pc = "find_convs"])
    /\ UNCHANGED <<users, conversations, messages, nextConv, nextMsg, now, started>>

\* the user's conversations are listed; without any, the message delete is skipped
FindUserConversations(t) ==
    /\ task[t].pc = "find_convs"
    /\ LET ids == ConversationsOf(task[t].doc.id, conversations)
       IN  Set(t, [task[t] EXCEPT !.conv_ids = ids,
                                  !.pc = IF ids # {} THEN "delete_user_msgs"
                                         ELSE "delete_user_convs"])
    /\ UNCHANGED <<users, conversations, messages, nextConv, nextMsg, now, started>>

\* Message.find(In(Message.conversation.id, conv_ids)).delete() lands
DeleteUserMessages(t) ==
    /\ task[t].pc = "delete_user_msgs"
    /\ messages' = {m \in messages : m.conv \notin task[t].conv_ids}
    /\ Set(t, [task[t] EXCEPT !.pc = "delete_user_convs"])
    /\ UNCHANGED <<users, conversations, nextConv, nextMsg, now, started>>

\* Conversation.find(Conversation.user.id == user.id).delete() lands
DeleteUserConversations(t) ==
    /\ task[t].pc = "delete_user_convs"
    /\ conversations' = [c \in DOMAIN conversations \ ConversationsOf(task[t].doc.id, conversations)
                           |-> conversations[c]]
    /\ Set(t, [task[t] EXCEPT !.pc = "delete_user_doc"])
    /\ UNCHANGED <<users, messages, nextConv, nextMsg, now, started>>

\* user.delete() lands; the success message is returned
DeleteUserDocument(t) ==
    /\ task[t].pc = "delete_user_doc"
    /\ users' = RemoveUser(task[t].doc.id)
    /\ Set(t, [Respond(t, StatusOk, "", NoConv) EXCEPT !.trace = Log(t, "user_deleted")])
    /\ UNCHANGED <<conversations, messages, nextConv, nextMsg, now, started>>

\* a script's User.find_one lands: the account is promoted, or a new one built
ScriptFind(t) ==
    /\ task[t].pc = "get"
    /\ task[t].op \in ScriptOps
    /\ LET user == GetUser(task[t].user_id)
       IN  IF user = NoUser
           THEN Set(t, [task[t] EXCEPT !.doc = Created(task[t].user_id, task[t].op),
                                       !.pc = "insert_user_doc"])
           ELSE Set(t, [task[t] EXCEPT !.doc = Promoted(user, task[t].op),
                                       !.pc = "save_user"])
    /\ UNCHANGED <<users, conversations, messages, nextConv, nextMsg, now, started>>

\* the script's save() or insert() lands; the unique email index refuses a
\* second insert of the same email
ScriptWrite(t) ==
    /\ task[t].pc \in {"save_user", "insert_user_doc"}
    /\ task[t].op \in ScriptOps
    /\ IF task[t].pc = "insert_user_doc" /\ task[t].doc.id \in DOMAIN users
       THEN /\ Set(t, Respond(t, StatusError, "duplicate key", NoConv))
            /\ UNCHANGED users
       ELSE /\ users' = SaveUser(task[t].doc)
            /\ Set(t, [Respond(t, StatusOk, "", NoConv) EXCEPT !.trace = Log(t, "user_written")])
    /\ UNCHANGED <<conversations, messages, nextConv, nextMsg, now, started>>

----------------------------------------------------------------------------
(* routers/auth.py: get_current_user and register; services/authorization.py;
   the routes of main.py *)

UnauthorizedDetail == "Could not validate credentials"
NotAuthenticatedDetail == "Not authenticated"

ForbiddenDetail(gate, required_role) ==
    CASE gate = "admin" -> "Admin access required"
      [] gate = "superadmin" -> "Superadmin access required"
      [] OTHER -> required_role

\* an "exp" far enough ahead never to be reached
Unexpired == MaxClock + MaxRequests + 1

\* OAuth2PasswordBearer: the Authorization header is there
Bearer(token) == token.present

DecodesMut(token, clock) == token.sig = "ok"

\* jwt.decode: the signature verifies and "exp" is not in the past
Decodes(token, clock) == token.sig = "ok" /\ ~(token.exp < clock)

\* the email get_current_user looks up, "" when it raises credentials_exception
\* before the lookup
Credentials(token, clock) ==
    IF Bearer(token) /\ Decodes(token, clock) /\ token.sub # "" THEN token.sub ELSE ""

\* "if not current_user.is_admin: raise 403"
RequireAdmin(user) == user.is_admin

\* "if current_user.role != required_role and not current_user.is_admin: raise 403"
RoleChecker(user, required_role) == ~(user.role # required_role /\ ~user.is_admin)

\* "if current_user.role != 'superadmin': raise 403"
RequireSuperadmin(user) == user.role = "superadmin"

\* the dependencies each route declares
GateOf(op) ==
    IF op \in {"get_me", "query", "list_conversations", "get_conversation_history",
               "delete_conversation"} THEN "user"
    ELSE IF op = "get_user" THEN "admin"
    ELSE IF op = "superadmin_only" THEN "superadmin"
    ELSE IF op = "role_only" THEN "role"
    ELSE "none"

Passes(gate, user, required_role) ==
    CASE gate = "admin" -> RequireAdmin(user)
      [] gate = "superadmin" -> RequireSuperadmin(user)
      [] gate = "role" -> RoleChecker(user, required_role)
      [] OTHER -> TRUE

\* main.py includes the auth, chat, ingestion, evaluation and admin routers
Mounted(op) == op \notin {"create_integration", "delete_integration"}

\* "email.lower()"
Lower(email) == IF email = "U9" THEN "u9" ELSE IF email = "U1" THEN "u1" ELSE email

\* User.find_one(User.email == email): the document, or NoUser for None
FindByEmail(email) ==
    IF \E k \in DOMAIN users : users[k].email = email
    THEN users[CHOOSE k \in DOMAIN users : users[k].email = email]
    ELSE NoUser

UniqueIndexMut(email, us) == FALSE

\* the unique index on User.email refuses an insert
UniqueIndex(email, us) == \E k \in DOMAIN us : us[k].email = email

\* the ids the store gives to inserted users
NewUserIds == <<"o1", "o2", "o3">>

FreshUserId == NewUserIds[1 + Cardinality({k \in DOMAIN users : \E i \in DOMAIN NewUserIds : NewUserIds[i] = k})]

\* a user as register builds it
Registered(email, password) ==
    [UserDoc("", "user", FALSE, TRUE) EXCEPT !.email = email,
                                             !.hashed_password = Hash(password)]

LoginFailedDetail == "Incorrect email or password"

Tokens ==
    {NoToken, Token_(TRUE, "bad", Unexpired, "u1"), Token_(TRUE, "ok", 0, "u2"),
     Token_(TRUE, "ok", Unexpired, ""), Token_(TRUE, "ok", Unexpired, GhostUser)}
    \cup {Token_(TRUE, "ok", Unexpired, u) : u \in {"u1", "u2", "s1"}}

GatedRequests ==
    [op : {"get_me", "list_conversations", "superadmin_only",
           "create_integration", "delete_integration"},
     token : Tokens, conv_id : {NoConv}, user_id : {""}, required_role : {""}]
    \cup [op : {"query"}, token : Tokens, conv_id : {NoConv, "c1"}, user_id : {""},
          required_role : {""}]
    \cup [op : {"get_conversation_history", "delete_conversation"}, token : Tokens,
          conv_id : {"c1"}, user_id : {""}, required_role : {""}]
    \cup [op : {"get_user"}, token : Tokens, conv_id : {NoConv}, user_id : {"u1", GhostUser},
          required_role : {""}]
    \cup [op : {"role_only"}, token : Tokens, conv_id : {NoConv}, user_id : {""},
          required_role : {"admin", "superadmin"}]
    \cup [op : {"register"}, token : Tokens, conv_id : {NoConv}, user_id : {"u1", "u9"},
          required_role : {""}]

\* the handler is entered: it runs to its first await
Enter(rec, user) ==
    LET r == [rec EXCEPT !.user = user.id, !.trace = <<"ran">>]
    IN  CASE r.op \in {"get_me", "superadmin_only", "role_only"} ->
                [r EXCEPT !.pc = "done", !.resp = [NoResp EXCEPT !.status = StatusOk]]
          [] r.op = "get_user" -> [r EXCEPT !.pc = "read_user"]
          [] r.op = "list_conversations" -> [r EXCEPT !.pc = "list_convs"]
          [] r.op = "register" -> [r EXCEPT !.pc = "find_existing"]
          [] r.op = "login" -> [r EXCEPT !.pc = "find_login"]
          [] r.op = "query" ->
                [r EXCEPT !.question = Question,
                          !.conversation = IF r.conv_id = NoConv
                                           THEN Conversation(NoConv, user.id, TitleOf(Question), now)
                                           ELSE NoDoc,
                          !.pc = IF r.conv_id = NoConv THEN "insert_conv" ELSE "get"]
          [] OTHER -> [r EXCEPT !.pc = "get"]

\* a request arrives: a route that is not there answers 404, a route without
\* dependencies is entered, and get_current_user answers 401 or looks the user up
BeginGated(t, requests) ==
    /\ task[t].pc \in {"idle", "done"}
    /\ started < MaxRequests
    /\ \E r \in requests :
         LET new == [IdleTask EXCEPT !.op = r.op, !.token = r.token, !.conv_id = r.conv_id,
                                     !.user_id = r.user_id, !.required = r.required_role,
                                     !.password = IF "password" \in DOMAIN r
                                                  THEN r.password ELSE Chars("p", 2)]
         IN  IF ~Mounted(r.op)
             THEN Set(t, [new EXCEPT !.pc = "done",
                                     !.resp = [NoResp EXCEPT !.status = StatusNotFound,
                                                             !.detail = "Not Found"]])
             ELSE IF GateOf(r.op) = "none"
             THEN Set(t, Enter(new, NoUser))
             ELSE IF Credentials(r.token, now) = ""
             THEN Set(t, [new EXCEPT !.pc = "done",
                                     !.resp = [NoResp EXCEPT !.status = StatusUnauthorized,
                                                             !.detail = IF Bearer(r.token)
                                                                        THEN UnauthorizedDetail
                                                                        ELSE NotAuthenticatedDetail]])
             ELSE Set(t, [new EXCEPT !.pc = "find_user"])
    /\ started' = started + 1
    /\ UNCHANGED <<users, conversations, messages, nextConv, nextMsg, now>>

\* User.find_one(User.email == email) lands: 401 without a user, 403 when the
\* route's role dependency refuses the user, else the handler is entered
Authenticate(t) ==
    /\ task[t].pc = "find_user"
    /\ LET user == FindByEmail(Credentials(task[t].token, now))
       IN  IF user = NoUser
           THEN Set(t, Respond(t, StatusUnauthorized, UnauthorizedDetail, NoConv))
           ELSE IF ~Passes(GateOf(task[t].op), user, task[t].required)
           THEN Set(t, Respond(t, StatusForbidden,
                               ForbiddenDetail(GateOf(task[t].op), task[t].required), NoConv))
           ELSE Set(t, Enter([task[t] EXCEPT !.doc = user], user))
    /\ UNCHANGED <<users, conversations, messages, nextConv, nextMsg, now, started>>

\* admin get_user: User.get lands
GetUserRead(t) ==
    /\ task[t].pc = "read_user"
    /\ IF GetUser(task[t].user_id) = NoUser
       THEN Set(t, Respond(t, StatusNotFound, UserNotFoundDetail, NoConv))
       ELSE Set(t, Respond(t, StatusOk, "", NoConv))
    /\ UNCHANGED <<users, conversations, messages, nextConv, nextMsg, now, started>>

\* list_conversations: the caller's conversations are returned
ListConversations(t) ==
    /\ task[t].pc = "list_convs"
    /\ Set(t, [Respond(t, StatusOk, "", NoConv) EXCEPT
                 !.conv_ids = ConversationsOf(task[t].user, conversations)])
    /\ UNCHANGED <<users, conversations, messages, nextConv, nextMsg, now, started>>

\* register: the lookup of the email lands
RegisterFind(t) ==
    /\ task[t].pc = "find_existing"
    /\ IF FindByEmail(Lower(task[t].user_id)) # NoUser
       THEN Set(t, Respond(t, StatusBadRequest, "Email already registered", NoConv))
       ELSE Set(t, [task[t] EXCEPT
                      !.doc = Registered(Lower(task[t].user_id), task[t].password),
                      !.pc = "insert_new_user"])
    /\ UNCHANGED <<users, conversations, messages, nextConv, nextMsg, now, started>>

\* register: user.insert() lands; the unique email index refuses a second one
RegisterInsert(t) ==
    /\ task[t].pc = "insert_new_user"
    /\ IF UniqueIndex(task[t].doc.email, users)
       THEN /\ Set(t, Respond(t, StatusError, "duplicate key", NoConv))
            /\ UNCHANGED users
       ELSE LET doc == [task[t].doc EXCEPT !.id = FreshUserId]
            IN  /\ users' = SaveUser(doc)
                /\ Set(t, [Respond(t, StatusOk, "", NoConv) EXCEPT
                             !.doc = doc, !.trace = Log(t, "user_written")])
    /\ UNCHANGED <<conversations, messages, nextConv, nextMsg, now, started>>

\* login: the lookup of the lower-cased email lands; the password is verified
\* and the token made
LoginFind(t) ==
    /\ task[t].pc = "find_login"
    /\ LET user == FindByEmail(Lower(task[t].user_id))
       IN  IF user = NoUser
           THEN Set(t, Respond(t, StatusUnauthorized, LoginFailedDetail, NoConv))
           ELSE IF ~VerifyPassword(task[t].password, user.hashed_password)
           THEN Set(t, Respond(t, StatusUnauthorized, LoginFailedDetail, NoConv))
           ELSE Set(t, [Respond(t, StatusOk, "", NoConv) EXCEPT
                          !.access_token = Token_(TRUE, "ok", now + Unexpired, user.email)])
    /\ UNCHANGED <<users, conversations, messages, nextConv, nextMsg, now, started>>

----------------------------------------------------------------------------
(* The proxied calls: services/api_client.py and the handlers of
   routers/ingestion.py, routers/evaluation.py and routers/admin.py that
   delegate to it *)

StatusPropagating == {"etl_status", "etl_job_logs"}

\* handlers whose call fails before a request is sent: etl_list_jobs takes no
\* skip or search, and the client has no get_all_feedback
Uncallable == {"etl_jobs", "get_feedback"}

ProxyOps == {"upload_file", "etl_ingest", "etl_submit", "etl_status", "etl_job_logs",
             "submit_feedback", "get_all_integrations", "get_all_etl_jobs",
             "get_dashboard_stats", "search"} \cup Uncallable

UpstreamErrors ==
    {Outcome("status", s) : s \in {StatusUnauthorized, StatusNotFound, StatusError}}
    \cup {Unreachable}

Returned(value) == [raised |-> FALSE, value |-> value, error |-> NoOutcome]

Raised(o) == [raised |-> TRUE, value |-> "", error |-> o]

\* a method of RagApiClient: raise_for_status, then the body; the except
\* clause re-raises, that of search returns []
ClientCall(op, o) ==
    IF o.kind = "ok" THEN Returned("data")
    ELSE IF op = "search" THEN Returned("empty")
    ELSE Raised(o)

\* the handler's answer to what the client method returned or raised
Answered(t, res) ==
    LET r == [task[t] EXCEPT !.pc = "done"]
        op == task[t].op
    IN  IF op = "search"
        THEN [r EXCEPT !.result = res.value]
        ELSE IF ~res.raised
        THEN [r EXCEPT !.resp = [NoResp EXCEPT !.status = StatusOk], !.result = res.value]
        ELSE IF op = "get_dashboard_stats"
        THEN [r EXCEPT !.resp = [NoResp EXCEPT !.status = StatusOk], !.result = "zeros"]
        ELSE IF op = "submit_feedback"
        THEN [r EXCEPT !.resp = [NoResp EXCEPT !.status = StatusOk], !.result = "null"]
        ELSE IF op \in StatusPropagating /\ res.error.kind = "status"
        THEN [r EXCEPT !.resp = [NoResp EXCEPT !.status = res.error.status,
                                               !.detail = "API error"]]
        ELSE [r EXCEPT !.resp = [NoResp EXCEPT !.status = StatusError,
                                               !.detail = UpstreamDetail]]

ProxyRequests == [op : ProxyOps]

\* a proxied request is accepted
BeginProxy(t, requests) ==
    /\ task[t].pc \in {"idle", "done"}
    /\ started < MaxRequests
    /\ \E r \in requests :
         LET new == [IdleTask EXCEPT !.op = r.op]
         IN  IF r.op \in Uncallable
             THEN Set(t, [new EXCEPT !.pc = "done",
                                     !.resp = [NoResp EXCEPT !.status = StatusError,
                                                             !.detail = "TypeError"]])
             ELSE IF r.op = "get_dashboard_stats"
             THEN Set(t, [new EXCEPT !.pc = "count"])
             ELSE Set(t, [new EXCEPT !.pc = "delegate"])
    /\ started' = started + 1
    /\ UNCHANGED <<users, conversations, messages, nextConv, nextMsg, now>>

\* get_dashboard_stats: the counts of the store land
CountStore(t) ==
    /\ task[t].pc = "count"
    /\ Set(t, [task[t] EXCEPT !.total_users = Cardinality(DOMAIN users),
                              !.rag_api_status = "online",
                              !.pc = "health"])
    /\ UNCHANGED <<users, conversations, messages, nextConv, nextMsg, now, started>>

\* get_dashboard_stats: GET /health is answered, or fails
HealthAnswer(t) ==
    /\ task[t].pc = "health"
    /\ \E o \in UpstreamErrors \cup {Ok} :
         Set(t, [task[t] EXCEPT
                   !.rag_api_status = CASE o.kind = "ok" -> "online"
                                        [] o.kind = "status" -> "degraded"
                                        [] OTHER -> "offline",
                   !.pc = "delegate"])
    /\ UNCHANGED <<users, conversations, messages, nextConv, nextMsg, now, started>>

\* the RAG API answers the delegated call, or the call fails
ProxyAnswer(t) ==
    /\ task[t].pc = "delegate"
    /\ \E o \in UpstreamErrors \cup {Ok} :
         Set(t, [Answered(t, ClientCall(task[t].op, o)) EXCEPT
                   !.upstream = o, !.trace = Log(t, "upstream_called")])
    /\ UNCHANGED <<users, conversations, messages, nextConv, nextMsg, now, started>>

\* time passes
Tick ==
    /\ now < MaxClock
    /\ now' = now + 1
    /\ UNCHANGED <<users, conversations, messages, nextConv, nextMsg, task, started>>

----------------------------------------------------------------------------
(* Specifications *)

BlockingStep(t) ==
    \/ Resolve(t)
    \/ SaveConversation(t)
    \/ InsertConversation(t)
    \/ InsertUserMessage(t)
    \/ FindHistory(t)
    \/ UpstreamAnswer(t)
    \/ UpstreamFailure(t)
    \/ InsertAssistantMessage(t)

ChatStep(t) ==
    \/ BlockingStep(t)
    \/ OpenStream(t)
    \/ StreamFrame(t)
    \/ StreamEnd(t)
    \/ StreamFailure(t)
    \/ Abandon(t)

StoreStep(t) ==
    \/ Lookup(t)
    \/ ReadMessages(t)
    \/ DeleteMessages(t)
    \/ DeleteConversation(t)

Quiet(t) == \A o \in Tasks \ {t} : task[o].pc \in {"idle", "done"}

\* chat turns, blocking and streaming, interleaved at their awaits
Next ==
    \/ \E t \in Tasks : Begin(t, ChatRequests) \/ ChatStep(t)
    \/ Tick

Spec == Init /\ [][Next]_vars

\* chat turns next to the readers and the delete of a conversation
NextStore ==
    \E t \in Tasks : Begin(t, ChatRequests \cup StoreRequests) \/ ChatStep(t) \/ StoreStep(t)

SpecStore == Init /\ [][NextStore]_vars

\* blocking turns on a conversation with a long history
NextHist ==
    \/ \E t \in Tasks : Begin(t, HistRequests) \/ BlockingStep(t)
    \/ Tick

SpecHist == InitHist /\ [][NextHist]_vars

UpdateStep(t) ==
    \/ UpdateUserGet(t)
    \/ UpdateUserSave(t)

DeleteUserStep(t) ==
    \/ DeleteUserGet(t)
    \/ CountSuperadmins(t)
    \/ FindUserConversations(t)
    \/ DeleteUserMessages(t)
    \/ DeleteUserConversations(t)
    \/ DeleteUserDocument(t)

ScriptStep(t) ==
    \/ ScriptFind(t)
    \/ ScriptWrite(t)

\* the admin's update_user and delete_user, interleaved at their awaits
NextUsers ==
    \E t \in Tasks :
        \/ BeginAdmin(t, UpdateRequests \cup DeleteRequests)
        \/ UpdateStep(t)
        \/ DeleteUserStep(t)

SpecUsers == InitAdmin /\ [][NextUsers]_vars

\* update_user and delete_user, one request at a time
NextUsersSeq ==
    \E t \in Tasks :
        \/ Quiet(t) /\ BeginAdmin(t, UpdateRequests \cup DeleteRequests)
        \/ UpdateStep(t)
        \/ DeleteUserStep(t)

SpecUsersSeq == InitAdmin /\ [][NextUsersSeq]_vars

\* update_user next to the two create_admin scripts
NextRoles ==
    \E t \in Tasks :
        \/ BeginAdmin(t, UpdateRequests \cup ScriptRequests)
        \/ UpdateStep(t)
        \/ ScriptStep(t)

SpecRoles == InitAdmin /\ [][NextRoles]_vars

GateStep(t) ==
    \/ Authenticate(t)
    \/ GetUserRead(t)
    \/ ListConversations(t)
    \/ RegisterFind(t)
    \/ RegisterInsert(t)

\* requests with every kind of token on the gated and the open routes
NextAccess ==
    \E t \in Tasks :
        \/ BeginGated(t, GatedRequests)
        \/ GateStep(t)
        \/ BlockingStep(t)
        \/ StoreStep(t)

SpecAccess == InitAccess /\ [][NextAccess]_vars

AccountRequests ==
    [op : {"register"}, token : {NoToken}, conv_id : {NoConv}, user_id : {"u1", "u9", "U9"},
     required_role : {""}, password : {Chars("a", 2)}]
    \cup [op : {"login"}, token : {NoToken}, conv_id : {NoConv},
          user_id : {"u1", "U1", "u9", GhostUser}, required_role : {""},
          password : {Chars("p", 2), Chars("a", 2), Chars("a", PasswordLimit),
                      Chars("a", PasswordLimit + 1)}]
    \cup [op : {"register"}, token : {NoToken}, conv_id : {NoConv}, user_id : {"u8"},
          required_role : {""}, password : {Chars("a", PasswordLimit)}]
    \cup [op : {"login"}, token : {NoToken}, conv_id : {NoConv}, user_id : {"u8"},
          required_role : {""},
          password : {Chars("a", PasswordLimit), Chars("a", PasswordLimit + 1)}]

\* registrations and logins, interleaved at their awaits
NextAccounts ==
    \E t \in Tasks :
        \/ BeginGated(t, AccountRequests)
        \/ RegisterFind(t)
        \/ RegisterInsert(t)
        \/ LoginFind(t)

SpecAccounts == InitAccess /\ [][NextAccounts]_vars

ProxyStep(t) ==
    \/ CountStore(t)
    \/ HealthAnswer(t)
    \/ ProxyAnswer(t)

\* blocking chat turns next to the proxied calls
NextProxy ==
    \E t \in Tasks :
        \/ Begin(t, HistRequests)
        \/ BlockingStep(t)
        \/ BeginProxy(t, ProxyRequests)
        \/ ProxyStep(t)

SpecProxy == Init /\ [][NextProxy]_vars

\* questions around the title limit
Questions == {Chars("q", n) : n \in {TitleLimit - 20, TitleLimit, TitleLimit + 1, TitleLimit + 10}}

TitleRequests ==
    [op : ChatOps, user : {Caller}, conv_id : {NoConv, NewConvIds[1]}, question : Questions]

\* chat turns with questions of several lengths, one request at a time
NextTitle ==
    \E t \in Tasks :
        \/ Quiet(t) /\ Begin(t, TitleRequests)
        \/ ChatStep(t)

SpecTitle == Init /\ [][NextTitle]_vars

StreamRequests == {r \in ChatRequests : r.op = "query_stream"}

\* a line of the richer upstream body arrives
StreamLine(t) == Arrive(t, StreamLines, MaxLines)

\* streaming turns over upstream bodies of up to MaxLines lines of any kind,
\* one turn after the other in one handler
NextStream ==
    \/ Begin(1, StreamRequests)
    \/ Resolve(1)
    \/ SaveConversation(1)
    \/ InsertConversation(1)
    \/ InsertUserMessage(1)
    \/ OpenStream(1)
    \/ StreamLine(1)
    \/ StreamEnd(1)
    \/ StreamFailure(1)
    \/ Abandon(1)
    \/ InsertAssistantMessage(1)

SpecStream == Init /\ [][NextStream]_vars

\* one request at a time
NextSeq ==
    \E t \in Tasks :
        \/ Quiet(t) /\ Begin(t, ChatRequests \cup StoreRequests)
        \/ ChatStep(t)
        \/ StoreStep(t)

SpecSeq == Init /\ [][NextSeq]_vars

----------------------------------------------------------------------------
(* Properties *)

Has(s, e) == \E i \in DOMAIN s : s[i] = e

Occ(s, e) == Cardinality({i \in DOMAIN s : s[i] = e})

\* every b of s has an a before it
Precedes(s, a, b) == \A j \in DOMAIN s : s[j] = b => \E i \in 1..(j - 1) : s[i] = a

ChatTurns == {t \in Tasks : task[t].op \in ChatOps}

Done(t) == task[t].pc = "done"

Succeeded(t) == Done(t) /\ task[t].resp.status = StatusOk /\ task[t].resp.detail = ""

\* the turn is past step 1: its conversation is written
Resolved(t) ==
    Has(task[t].trace, "conversation_saved") \/ Has(task[t].trace, "conversation_created")

HasFrame(t, type) == \E i \in DOMAIN task[t].received : task[t].received[i].type = type

\* C1: a streaming turn whose upstream frames stop after token frames and
\* before a done frame has its question stored and no assistant message
C1_NoPartialAnswer ==
    \A t \in Tasks :
        (/\ task[t].op = "query_stream"
         /\ Done(t)
         /\ HasFrame(t, "token")
         /\ ~HasFrame(t, "done"))
        => /\ task[t].user_msg \in messages
           /\ task[t].assistant_msg = NoMessage
           /\ ~Has(task[t].trace, "assistant_saved")

\* C2: a turn past conversation resolution creates exactly one user message
\* with the question in the resolved conversation, whatever the upstream call
\* does, and the message stays
C2_OneUserMessage ==
    \A t \in ChatTurns :
        LET n == Occ(task[t].trace, "user_saved")
            m == task[t].user_msg
        IN  /\ n <= 1
            /\ (Resolved(t) /\ task[t].pc # "insert_user") => n = 1
            /\ n = 0 => m.id = 0 /\ m \notin messages
            /\ n = 1 => /\ m \in messages
                        /\ Cardinality({x \in messages : x.id = m.id}) = 1
                        /\ m.role = "user"
                        /\ m.content = task[t].question
                        /\ m.conv = task[t].conversation.id
                        /\ Exists(m.conv)
                        /\ task[t].conv_id # NoConv => m.conv = task[t].conv_id

C2_Witness ==
    \E t \in ChatTurns, o \in ChatTurns :
        /\ Done(t) /\ Has(task[t].trace, "upstream_failed") /\ task[t].user_msg \in messages
        /\ Succeeded(o) /\ task[o].user_msg \in messages

\* the upstream call of the turn went through: chat_with_history returned an
\* answer, or the upstream stream was read to its end without an exception
UpstreamCompleted(t) == Done(t) /\ Has(task[t].trace, "upstream_done")

AssistantStored(t) ==
    LET a == task[t].assistant_msg
    IN  /\ Occ(task[t].trace, "assistant_saved") = 1
        /\ a \in messages
        /\ Cardinality({x \in messages : x.id = a.id}) = 1
        /\ a.role = "assistant"
        /\ a.conv = task[t].conversation.id
        /\ task[t].user_msg.timestamp < a.timestamp

\* C3 as stated: every completed turn creates exactly one assistant message,
\* after its user message in timestamp order
C3_Original == \A t \in ChatTurns : UpstreamCompleted(t) => AssistantStored(t)

\* C3 amended: a completed blocking turn, and a completed streaming turn that
\* accumulated some token text, creates exactly one assistant message, after its
\* user message in timestamp order; a completed streaming turn that accumulated
\* no token text creates none
C3_AssistantMessage ==
    \A t \in ChatTurns :
        UpstreamCompleted(t) =>
            IF task[t].op = "query" \/ task[t].full_answer # <<>>
            THEN AssistantStored(t)
            ELSE /\ ~Has(task[t].trace, "assistant_saved")
                 /\ task[t].assistant_msg = NoMessage
                 /\ \A m \in MessagesOf(task[t].conversation.id, messages) :
                        m.role = "assistant" => m.content # <<>>

C3_Witness ==
    \E t \in ChatTurns, o \in ChatTurns :
        /\ task[t].op = "query_stream" /\ UpstreamCompleted(t)
        /\ HasFrame(t, "done") /\ task[t].full_answer = <<>>
        /\ task[o].op = "query_stream" /\ UpstreamCompleted(o)
        /\ task[o].full_answer # <<>> /\ AssistantStored(o)

ForeignConv == "c3"

\* C4: a turn with the id of a conversation the caller owns works on that
\* conversation and returns its id; a turn with the id of another user's
\* conversation fails with not-found and leaves that conversation and its
\* messages as they were
C4_OwnConversationOnly ==
    /\ \A t \in ChatTurns :
          /\ task[t].target = "owned" =>
                /\ task[t].conversation.id = task[t].conv_id
                /\ task[t].conversation.owner = task[t].user
                /\ task[t].user_msg.id # 0 => task[t].user_msg.conv = task[t].conv_id
                /\ task[t].assistant_msg.id # 0 => task[t].assistant_msg.conv = task[t].conv_id
                /\ Succeeded(t) => task[t].resp.conversation_id = task[t].conv_id
                /\ (task[t].op = "query_stream" /\ Has(task[t].trace, "user_saved"))
                      => task[t].out[1] = SSE(ConvIdEvent(task[t].conv_id))
          /\ task[t].target = "foreign" =>
                /\ Done(t)
                /\ task[t].resp.detail = NotFoundDetail
                /\ task[t].resp.conversation_id = NoConv
                /\ task[t].trace = <<>>
                /\ task[t].conversation = NoDoc
    /\ conversations[ForeignConv] = Conversation(ForeignConv, "u2", Question, 0)
    /\ MessagesOf(ForeignConv, messages) = {Message(4, ForeignConv, "user", Question, 0)}

C4_Witness ==
    \E t \in ChatTurns, o \in ChatTurns :
        /\ Succeeded(t) /\ task[t].conv_id = "c1" /\ task[t].resp.conversation_id = "c1"
        /\ Done(o) /\ task[o].conv_id = ForeignConv /\ task[o].target = "foreign"

Denials == {"foreign", "absent"}

\* the store is as it was
StoreUnchanged ==
    /\ conversations' = conversations
    /\ messages' = messages
    /\ nextConv' = nextConv
    /\ nextMsg' = nextMsg

\* a step in which the lookup of one of these requests lands on an id that is
\* another user's or names nothing
DenialStep(t, ops) ==
    /\ task[t].pc = "get"
    /\ task[t].op \in ops
    /\ task'[t].target \in Denials

\* the same request on another user's conversation and on no conversation
Twins(t, o) ==
    /\ task[t].op = task[o].op
    /\ Done(t) /\ task[t].target = "foreign"
    /\ Done(o) /\ task[o].target = "absent"

\* C5: for get_conversation_history, delete_conversation and a chat turn, the
\* response for another user's conversation is the response for an id that
\* names no conversation, and neither request changes the store
C5_Indistinguishable ==
    /\ [](\A t \in Tasks, o \in Tasks :
            (task[t].op \in OwnerOps \cup ChatOps /\ Twins(t, o))
            => /\ task[t].resp = task[o].resp
               /\ task[t].out = task[o].out
               /\ task[t].trace = <<>> /\ task[o].trace = <<>>)
    /\ [][\A t \in Tasks : DenialStep(t, OwnerOps \cup ChatOps) => StoreUnchanged]_vars

C5_Witness ==
    \E t \in Tasks, o \in Tasks :
        /\ task[t].op \in OwnerOps /\ Twins(t, o)
        /\ task[t].resp.status = StatusNotFound

Readers == {t \in Tasks : task[t].op \in {"get_conversation_history",
                                          "get_conversation_messages"}}

\* C6: no reader is answered from a conversation whose messages a cascade has
\* deleted while the conversation is still there, and none is handed messages
\* of a conversation that is gone
C6_AtomicCascade ==
    \A t \in Readers :
        /\ ~Has(task[t].trace, "read_in_cascade")
        /\ ~(Has(task[t].trace, "read_without_conversation") /\ task[t].resp.body # <<>>)

\* C7: a first delete removes the conversation and all and only its messages,
\* a second delete of the same id is refused with not-found and changes nothing
C7_DeleteTwice ==
    /\ [](/\ \A t \in Tasks :
               (task[t].op = "delete_conversation" /\ Done(t)) =>
                   IF task[t].target = "owned"
                   THEN /\ task[t].resp.status = StatusOk
                        /\ ~Exists(task[t].conv_id)
                        /\ {m \in messages : m.conv = task[t].conv_id} = {}
                   ELSE /\ task[t].resp.status = StatusNotFound
                        /\ task[t].resp.detail = NotFoundDetail
                        /\ task[t].trace = <<>>
          /\ \A c \in {"c2", ForeignConv} :
               /\ Exists(c)
               /\ {m \in messages : m.conv = c} = {Message(IF c = "c2" THEN 3 ELSE 4, c, "user", Question, 0)})
    /\ [][\A t \in Tasks :
            /\ DenialStep(t, {"delete_conversation"}) => StoreUnchanged
            /\ (task[t].pc = "delete_msgs" /\ task'[t].pc # "delete_msgs") =>
                   /\ messages' = {m \in messages : m.conv # task[t].conversation.id}
                   /\ conversations' = conversations
            /\ (task[t].pc = "delete_conv" /\ task'[t].pc # "delete_conv") =>
                   /\ DOMAIN conversations' = DOMAIN conversations \ {task[t].conversation.id}
                   /\ \A c \in DOMAIN conversations' : conversations'[c] = conversations[c]
                   /\ messages' = messages]_vars

C7_Witness ==
    \E t \in Tasks, o \in Tasks :
        /\ task[t].op = "delete_conversation" /\ task[t].conv_id = "c1"
        /\ Done(t) /\ task[t].resp.status = StatusOk
        /\ task[o].op = "delete_conversation" /\ task[o].conv_id = "c1"
        /\ Done(o) /\ task[o].target = "absent" /\ task[o].resp.status = StatusNotFound

\* no message stands before an earlier one (equal timestamps are let pass)
Chronological(docs) ==
    \A i \in DOMAIN docs, j \in DOMAIN docs : i < j => docs[i].timestamp <= docs[j].timestamp

\* C8: the list sent upstream has at most 11 entries, is in chronological
\* order and ends with the conversation's most recent message
C8_BoundedOrderedHistory ==
    \A t \in Tasks :
        Has(task[t].trace, "upstream_called") =>
            LET docs == AssembledDocs(task[t].past_msgs, task[t].user_msg)
            IN  /\ Len(task[t].history_messages) <= HistoryLimit
                /\ Chronological(docs)
                /\ docs[Len(docs)] \in task[t].latest

\* C9: in a turn the user message is stored before the upstream call is made,
\* and the upstream call has returned before the assistant message is stored
C9_TurnOrder ==
    \A t \in ChatTurns :
        LET tr == task[t].trace
        IN  /\ Precedes(tr, "user_saved", "upstream_called")
            /\ Precedes(tr, "upstream_called", "upstream_done")
            /\ Precedes(tr, "upstream_done", "assistant_saved")
            /\ task[t].pc \in {"find", "upstream", "open_stream", "stream"} =>
                   /\ task[t].user_msg \in messages
                   /\ task[t].assistant_msg = NoMessage
            /\ task[t].assistant_msg # NoMessage =>
                   /\ Has(tr, "upstream_done")
                   /\ task[t].user_msg \in messages
                   /\ task[t].user_msg.id < nextMsg
                   /\ task[t].assistant_msg.id # 0 => task[t].user_msg.id < task[t].assistant_msg.id

C9_Witness ==
    \E t \in ChatTurns, o \in ChatTurns :
        /\ task[t].op = "query" /\ Succeeded(t)
        /\ task[t].trace = <<"conversation_saved", "user_saved", "upstream_called",
                             "upstream_done", "assistant_saved">>
        /\ task[o].op = "query_stream" /\ Succeeded(o)
        /\ Has(task[o].trace, "assistant_saved")

\* C10: a turn whose conversation id names another user's conversation or none
\* ends at once: nothing is stored, no upstream call is made, no
\* conversation_id event is emitted
C10_FailedResolutionAborts ==
    /\ [](\A t \in ChatTurns :
            task[t].target \in Denials =>
                /\ Done(t)
                /\ task[t].trace = <<>>
                /\ task[t].user_msg = NoMessage
                /\ task[t].assistant_msg = NoMessage
                /\ task[t].conversation = NoDoc
                /\ task[t].history_messages = <<>>
                /\ task[t].resp.detail = NotFoundDetail
                /\ \A i \in DOMAIN task[t].out : task[t].out[i][1].type # "conversation_id")
    /\ [][\A t \in Tasks : DenialStep(t, ChatOps) => StoreUnchanged]_vars

C10_Witness ==
    \E t \in ChatTurns, o \in ChatTurns :
        /\ task[t].op = "query" /\ Done(t) /\ task[t].target = "absent"
        /\ task[o].op = "query_stream" /\ Done(o) /\ task[o].target = "foreign"
        /\ task[o].out = <<SSE(ErrorEvent(NotFoundDetail))>>

----------------------------------------------------------------------------
(* The streamed response as its reader sees it *)

\* the body of the response: what was yielded, one piece after the other
RECURSIVE Wire(_)
Wire(out) == IF out = <<>> THEN <<>> ELSE Head(out) \o Wire(Tail(out))

\* "async for line in response.aiter_lines()" on the reader's side: the text
\* between two line ends, empty lines passed over
RECURSIVE ClientLines(_, _)
ClientLines(wire, cur) ==
    IF wire = <<>> THEN (IF cur = <<>> THEN <<>> ELSE <<cur>>)
    ELSE IF Head(wire) = NL
         THEN (IF cur = <<>> THEN <<>> ELSE <<cur>>) \o ClientLines(Tail(wire), <<>>)
         ELSE ClientLines(Tail(wire), Append(cur, Head(wire)))

\* the event frames among the lines the upstream sent
UpstreamFrames(t) == SelectSeq(task[t].received, Kept)

StreamTurns == {t \in Tasks : task[t].op = "query_stream"}

----------------------------------------------------------------------------
(* Users *)

\* C12: after any sequence and interleaving of update_user and delete_user
\* there is still a user with role superadmin that is active
C12_SuperadminRemains == ActiveSuperadmins(users) # {}

\* the step in which request t ends
Ends(t) == task'[t].pc = "done" /\ task'[t] # task[t]

\* the request found this user as a superadmin
TargetsSuperadmin(r) ==
    /\ r.op = "delete_user"
    /\ r.user_id \in DOMAIN r.before.users
    /\ r.before.users[r.user_id].role = "superadmin"

\* the user is the only active superadmin there is
LastActiveSuperadmin(u, us) == ActiveSuperadmins(us) = {u}

\* C13: delete_user on the last active superadmin is rejected and changes
\* nothing; delete_user (by another admin) on a superadmin that is not the last
\* one succeeds, and afterwards the user, the user's conversations and their
\* messages are gone and everything else is as it was
C13_DeleteSuperadmin ==
    [][\A t \in Tasks :
         (Ends(t) /\ TargetsSuperadmin(task'[t])) =>
            LET r == task'[t]
                pre == r.before
                owned == ConversationsOf(r.user_id, pre.conversations)
            IN  IF LastActiveSuperadmin(r.user_id, pre.users)
                THEN /\ r.resp.status = StatusBadRequest
                     /\ users' = pre.users
                     /\ conversations' = pre.conversations
                     /\ messages' = pre.messages
                ELSE r.user # r.user_id =>
                     /\ r.resp.status = StatusOk
                     /\ users' = [u \in DOMAIN pre.users \ {r.user_id} |-> pre.users[u]]
                     /\ conversations' = [c \in DOMAIN pre.conversations \ owned |->
                                             pre.conversations[c]]
                     /\ messages' = {m \in pre.messages : m.conv \notin owned}]_vars

\* C14: every user whose role is admin or superadmin has the administrative flag
C14_FlagFollowsRole ==
    \A u \in DOMAIN users : users[u].role \in {"admin", "superadmin"} => users[u].is_admin

----------------------------------------------------------------------------
(* The access boundary *)

GatedOps == {"get_me", "query", "list_conversations", "get_conversation_history",
             "delete_conversation", "get_user", "superadmin_only", "role_only"}

AdminOnly == {"get_user"}

SuperadminOnly == {"superadmin_only"}

\* the handler behind the gate has run
Ran(r) == r.trace # <<>>

\* no token, a bad signature, an expiry in the past or no subject
Unusable(token) ==
    \/ ~token.present
    \/ token.sig # "ok"
    \/ token.exp < now
    \/ token.sub = ""

TurnedAway(r, status) == r.pc = "done" /\ r.resp.status = status /\ ~Ran(r)

\* the user's role does not open the route
Insufficient(r, user) ==
    \/ r.op \in AdminOnly /\ ~user.is_admin
    \/ r.op \in SuperadminOnly /\ user.role # "superadmin"
    \/ r.op = "role_only" /\ user.role # r.required /\ ~user.is_admin

\* the users with this email
Named(email) == {k \in DOMAIN users : users[k].email = email}

\* C15: a request to a gated route with no token, an invalid or expired token
\* or a subject that names no user is answered 401, one with a valid token
\* and an insufficient role 403; neither runs the handler nor touches the
\* store, and the handler of an admin-only route runs only for a user with
\* is_admin, that of a superadmin-only route only for role superadmin
C15_AccessBoundary ==
    /\ [](\A t \in Tasks :
            LET r == task[t]
            IN  r.op \in GatedOps =>
                  /\ Unusable(r.token) => TurnedAway(r, StatusUnauthorized)
                  /\ Ran(r) => /\ r.doc # NoUser
                               /\ r.doc.email = r.token.sub
                               /\ r.op \in AdminOnly => r.doc.is_admin
                               /\ r.op \in SuperadminOnly => r.doc.role = "superadmin")
    /\ [][\A t \in Tasks :
            (task[t].pc = "find_user" /\ task'[t] # task[t]) =>
               LET sub == task[t].token.sub
               IN  IF Named(sub) = {}
                   THEN TurnedAway(task'[t], StatusUnauthorized) /\ StoreUnchanged
                   ELSE IF \E k \in Named(sub) : Insufficient(task[t], users[k])
                   THEN TurnedAway(task'[t], StatusForbidden) /\ StoreUnchanged
                   ELSE Ran(task'[t])]_vars

\* both refusals and both passes have happened
C15_Witness ==
    \E t \in Tasks, o \in Tasks :
        /\ task[t].op \in AdminOnly /\ TurnedAway(task[t], StatusForbidden)
        /\ task[o].op \in SuperadminOnly /\ Ran(task[o])

\* the request comes from an authenticated caller with admin privilege
ByAdmin(r) ==
    /\ ~Unusable(r.token)
    /\ \E k \in Named(r.token.sub) : users[k].is_admin

\* C19: the handler of POST /auth/register runs, and a user is created, only
\* for an authenticated caller with admin privilege
C19_RegisterGated ==
    \A t \in Tasks :
        (task[t].op = "register" /\ Ran(task[t])) => ByAdmin(task[t])

TokenOps == {"query", "list_conversations", "delete_conversation",
             "create_integration", "delete_integration"}

\* C20: a chat query, a conversation list or delete and an integration create
\* or delete without a bearer token is answered 401 and runs no handler
C20_TokenRequired ==
    \A t \in Tasks :
        (task[t].op \in TokenOps /\ ~task[t].token.present)
        => TurnedAway(task[t], StatusUnauthorized)

----------------------------------------------------------------------------
(* Failures *)

\* C18: a turn of POST /chat/query that names a conversation that does not
\* exist is answered 404
C18_MissingConversation ==
    \A t \in Tasks :
        (task[t].op = "query" /\ Done(t) /\ task[t].target = "absent")
        => task[t].resp.status = StatusNotFound

\* calls that go to the RAG API on behalf of an HTTP client
Proxied == {"query", "upload_file", "etl_ingest", "etl_submit", "etl_status",
            "etl_job_logs", "submit_feedback", "get_all_integrations"}

\* C16: when the RAG API answers a proxied call with a non-2xx status, the
\* response carries that status; a failure without a status is answered 500
C16_StatusPropagated ==
    \A t \in Tasks :
        (Done(t) /\ task[t].op \in Proxied) =>
            /\ task[t].upstream.kind = "status" =>
                  task[t].resp.status = task[t].upstream.status
            /\ task[t].upstream.kind = "failed" => task[t].resp.status = StatusError

\* the caller got an error: a failure status, or nothing was returned
ErrorOutcome(r) == r.resp.status \in {StatusBadRequest, StatusUnauthorized, StatusForbidden,
                                      StatusNotFound, StatusError}

\* C17: but for the ETL counts of the dashboard, a delegated call that failed
\* upstream ends in an error for the caller, never in a normal result
C17_FailuresSurfaced ==
    \A t \in Tasks :
        (/\ Done(t)
         /\ task[t].op \in (ProxyOps \cup {"query"}) \ {"get_dashboard_stats"}
         /\ task[t].upstream \in UpstreamErrors \cup ChatErrors)
        => ErrorOutcome(task[t]) /\ task[t].result = ""

----------------------------------------------------------------------------
(* Timestamps and ownership *)

\* C21: within a conversation the timestamps follow the order of insertion
\* and no two messages carry the same timestamp
C21_TimestampOrder ==
    \A m \in messages, o \in messages :
        (m.conv = o.conv /\ m.id < o.id) => m.timestamp < o.timestamp

\* C22: the updated_at of a conversation is not earlier than the timestamp of
\* any of its messages
C22_UpdatedAtBumped ==
    \A m \in messages :
        Exists(m.conv) => m.timestamp <= conversations[m.conv].updated_at

\* no request is in flight
Quiescent == \A t \in Tasks : task[t].pc \in {"idle", "done"}

\* C27: when no request is in flight, every message belongs to a conversation
\* that exists and every conversation to a user that exists
C27_NoOrphans ==
    Quiescent =>
        /\ \A m \in messages : Exists(m.conv)
        /\ \A c \in DOMAIN conversations : conversations[c].owner \in DOMAIN users

\* C30: no write to a conversation makes its stored updated_at earlier
C30_UpdatedAtMonotonic ==
    [][\A c \in DOMAIN conversations \cap DOMAIN conversations' :
          conversations[c].updated_at <= conversations'[c].updated_at]_vars

----------------------------------------------------------------------------
(* Accounts *)

\* the stored hash was made from a password that agrees with this one on its
\* first 72 characters
Matches(password, hashed) ==
    LET n == IF Len(password) < PasswordLimit THEN Len(password) ELSE PasswordLimit
    IN  /\ Len(hashed.bcrypt) = n
        /\ \A i \in 1..n : hashed.bcrypt[i] = password[i]

LowerCased(email) == CASE email = "U1" -> "u1" [] email = "U9" -> "u9" [] OTHER -> email

LoginEnds(t) == task[t].op = "login" /\ task[t].pc = "find_login" /\ task'[t] # task[t]

\* C25: login answers with a token for the user's email exactly when a user
\* with the lower-cased email exists and the password verifies; otherwise it
\* answers the same 401 without a token, whichever of the two failed; it
\* never changes the store
C25_Login ==
    [][\A t \in Tasks :
         LoginEnds(t) =>
            LET r == task'[t]
                found == {k \in Named(LowerCased(task[t].user_id)) :
                             Matches(task[t].password, users[k].hashed_password)}
            IN  /\ r.pc = "done"
                /\ users' = users /\ StoreUnchanged
                /\ IF found # {}
                   THEN /\ r.resp.status = StatusOk
                        /\ r.access_token.present
                        /\ r.access_token.sig = "ok"
                        /\ r.access_token.sub = LowerCased(task[t].user_id)
                   ELSE /\ r.resp = [NoResp EXCEPT !.status = StatusUnauthorized,
                                                   !.detail = LoginFailedDetail]
                        /\ r.access_token = NoToken]_vars

\* a login has succeeded, and another has failed on a wrong password
C25_Witness ==
    \E t \in Tasks, o \in Tasks :
        /\ task[t].op = "login" /\ Done(t) /\ task[t].access_token.present
        /\ task[o].op = "login" /\ Done(o) /\ task[o].resp.status = StatusUnauthorized
        /\ Named(LowerCased(task[o].user_id)) # {}

RegisterEnds(t) ==
    task[t].op = "register" /\ task[t].pc # "done" /\ task'[t].pc = "done"

\* C26: no two users have the same email, and a registration that ends while
\* its lower-cased email is registered is rejected and leaves the users as
\* they are
C26_UniqueEmail ==
    /\ [](\A a \in DOMAIN users, b \in DOMAIN users :
            users[a].email = users[b].email => a = b)
    /\ [][\A t \in Tasks :
            (RegisterEnds(t) /\ Named(LowerCased(task[t].user_id)) # {}) =>
                /\ task'[t].resp.status \in {StatusBadRequest, StatusError}
                /\ users' = users]_vars

\* two registrations of one address in two spellings have both gone past the
\* lookup; one has created the user and the other has been refused by the index
C26_Witness ==
    \E t \in Tasks, o \in Tasks :
        /\ task[t].op = "register" /\ task[t].resp.status = StatusOk
        /\ task[o].op = "register" /\ task[o].resp.status = StatusError
        /\ task[t].user_id # task[o].user_id
        /\ LowerCased(task[t].user_id) = LowerCased(task[o].user_id)

----------------------------------------------------------------------------
(* What a turn sends and stores *)

\* the messages the conversation of the turn held before the turn's question
Prior(t) ==
    {m \in MessagesOf(task[t].conversation.id, messages) : m.id < task[t].user_msg.id}

\* C23: what a turn forwards upstream ends with its question, and holds more
\* than the question when the conversation had messages before it
C23_HistoryForwarded ==
    \A t \in ChatTurns :
        Has(task[t].trace, "upstream_called") =>
            LET f == task[t].forwarded
            IN  /\ f # <<>>
                /\ f[Len(f)] = [role |-> "user", content |-> task[t].question]
                /\ Prior(t) # {} => Len(f) > 1

\* two blocking turns on one conversation that was there before them, both
\* answered
BothAnswered(t, o) ==
    /\ t # o
    /\ task[t].op = "query" /\ task[o].op = "query"
    /\ Succeeded(t) /\ Succeeded(o)
    /\ task[t].target = "owned" /\ task[o].target = "owned"
    /\ task[t].conversation.id = task[o].conversation.id

\* the messages written to a conversation since the initial state
Written(c) == {m \in MessagesOf(c, messages) : m.timestamp > 0}

\* C29: after two answered blocking turns on the same existing conversation
\* the conversation has gained exactly four messages: the question of each
\* turn as a user message and the answer of each turn as an assistant message
C29_NoLostMessage ==
    \A t \in Tasks, o \in Tasks :
        BothAnswered(t, o) =>
            LET c == task[t].conversation.id
                four == {task[t].user_msg, task[t].assistant_msg,
                         task[o].user_msg, task[o].assistant_msg}
            IN  /\ Written(c) = four
                /\ Cardinality(four) = 4
                /\ Cardinality({m.id : m \in four}) = 4
                /\ \A r \in {t, o} :
                     /\ task[r].user_msg.role = "user"
                     /\ task[r].user_msg.content = task[r].question
                     /\ task[r].assistant_msg.role = "assistant"
                     /\ task[r].assistant_msg.content = Answer

\* the two turns overlapped: one's question was stored between the other's
\* question and answer
C29_Witness ==
    \E t \in Tasks, o \in Tasks :
        /\ BothAnswered(t, o)
        /\ task[t].user_msg.id < task[o].user_msg.id
        /\ task[o].user_msg.id < task[t].assistant_msg.id

\* the title the claim gives a question
Expected(question) ==
    IF Len(question) <= TitleLimit
    THEN question
    ELSE [i \in 1..(TitleLimit + 3) |-> IF i <= TitleLimit THEN question[i] ELSE "."]

\* C24: a conversation created by a turn is titled with the question, cut to
\* its first 50 characters and followed by "..." when it is longer, and no
\* later write changes a title
C24_Title ==
    /\ [](\A t \in ChatTurns :
            (task[t].target = "new" /\ Exists(task[t].conversation.id)) =>
                LET title == conversations[task[t].conversation.id].title
                    q == task[t].question
                IN  /\ title = Expected(q)
                    /\ Len(q) = TitleLimit + 10 => Len(title) = TitleLimit + 3
                    /\ Len(q) = TitleLimit - 20 => title = q)
    /\ [][\A c \in DOMAIN conversations \cap DOMAIN conversations' :
            conversations'[c].title = conversations[c].title]_vars

\* a later turn has run on a conversation that a 60-character question created
C24_Witness ==
    \E t \in ChatTurns :
        /\ Succeeded(t) /\ task[t].target = "owned"
        /\ Len(task[t].question) = TitleLimit - 20
        /\ Len(conversations[task[t].conversation.id].title) = TitleLimit + 3

\* whether a line is a frame of type token
IsToken(line) == line.data /\ line.json /\ line.type = "token"

\* the fragments of the token frames among the lines, joined in arrival order
RECURSIVE Fragments(_)
Fragments(lines) ==
    IF lines = <<>> THEN <<>>
    ELSE (IF IsToken(Head(lines)) THEN Head(lines).content ELSE <<>>)
             \o Fragments(Tail(lines))

\* C28: the assistant message a streaming turn stores holds the fragments of
\* the token frames it received, joined in arrival order, and nothing from
\* any other line
C28_AnswerIsTokens ==
    \A t \in Tasks :
        (task[t].op = "query_stream" /\ Has(task[t].trace, "upstream_done")) =>
            /\ Has(task[t].trace, "assistant_saved") =>
                   \E m \in messages :
                       /\ m.id = task[t].assistant_msg.id
                       /\ m.role = "assistant"
                       /\ m.content = Fragments(task[t].received)
            /\ (Done(t) /\ Fragments(task[t].received) # <<>>) =>
                   Has(task[t].trace, "assistant_saved")

\* a turn has stored an answer of two different fragments taken from a body
\* that also held a line contributing nothing
C28_Witness ==
    \E t \in Tasks :
        /\ task[t].op = "query_stream" /\ Succeeded(t)
        /\ Has(task[t].trace, "assistant_saved")
        /\ Len(task[t].received) = MaxLines
        /\ \E i \in DOMAIN task[t].received :
               ~IsToken(task[t].received[i]) /\ task[t].received[i].content # <<>>
        /\ task[t].assistant_msg.content \in {<<"x", "y">>, <<"y", "x">>}
        /\ task[t].assistant_msg \in messages

====
